---- MODULE Spec2Model ----
(***************************************************************************)
(* Model of the interactive tracing tool of AI-Vectorizer-for-Archaeology  *)
(* (ai_vectorizer/tools/smart_trace_tool.py, class SmartTraceTool) and of  *)
(* the helpers it calls (ai_vectorizer/core/edge_detector.py).             *)
(*                                                                         *)
(* Map coordinates are fixed-point integers (map units); a point is a      *)
(* pair <<x, y>>.  Python's None is NonePt for a point, NoneId for a       *)
(* feature id and NoneVal for an array, rectangle or transform; an         *)
(* attribute that __init__ never assigns is Unset (reading it raises       *)
(* AttributeError).  A handler that raises keeps the assignments it made   *)
(* before the raise and records ev.raised = TRUE.                          *)
(*                                                                         *)
(* A local of the code that is read several times is a parameter of a      *)
(* helper operator: the helper's name says which part of the function it   *)
(* continues.                                                              *)
(***************************************************************************)
EXTENDS Integers, Sequences, FiniteSets, TLC

NonePt == << >>
NoneId == 0
NoneVal == [tag |-> "None"]
Unset == [tag |-> "unset"]
\* float('inf') of the search's min_dist_to_target
Inf == 0 - 1

(*************************** arithmetic helpers ****************************)
Abs(i) == IF i < 0 THEN 0 - i ELSE i
Max(a, b) == IF a > b THEN a ELSE b
Min(a, b) == IF a < b THEN a ELSE b
\* Python int(a / b) for b > 0: truncation toward zero
TruncDiv(a, b) == IF a >= 0 THEN a \div b ELSE 0 - ((0 - a) \div b)

\* floor of the square root of v, which lies in lo..hi
RECURSIVE ISqrtR(_, _, _)
ISqrtR(v, lo, hi) ==
    IF lo >= hi THEN lo
    ELSE IF ((lo + hi + 1) \div 2) * ((lo + hi + 1) \div 2) <= v
    THEN ISqrtR(v, (lo + hi + 1) \div 2, hi)
    ELSE ISqrtR(v, lo, ((lo + hi + 1) \div 2) - 1)

Last(s) == s[Len(s)]
Front(s) == SubSeq(s, 1, Len(s) - 1)
Reverse(s) == [i \in 1..Len(s) |-> s[Len(s) + 1 - i]]
\* Python s[:n] for n >= 0
Prefix(s, n) == SubSeq(s, 1, Min(n, Len(s)))

(******************************* the canvas ********************************)
\* canvas.mapUnitsPerPixel(): map units per screen pixel
MUPP == 100
\* map units per raster pixel: raster_ext.width() / raster_layer.width()
RasterRes == 3840
\* raster_layer.width() and .height(), in raster pixels
RasterW == 11
RasterH == 10
Rect(x0, x1, y0, y1) == [xmin |-> x0, xmax |-> x1, ymin |-> y0, ymax |-> y1]
raster_ext == Rect(0, RasterW * RasterRes, 0, RasterH * RasterRes)

\* canvas extents the operator can pan to
ViewA == Rect(0 - 3 * RasterRes, 10 * RasterRes, 0, 10 * RasterRes)
ViewB == Rect(RasterRes, 12 * RasterRes, 0, 10 * RasterRes)

\* QgsRectangle.isEmpty / width / height / intersect
RectIsEmpty(r) == r.xmax <= r.xmin \/ r.ymax <= r.ymin
RectWidth(r) == r.xmax - r.xmin
RectHeight(r) == r.ymax - r.ymin
NullIfEmpty(r) == IF RectIsEmpty(r) THEN Rect(0, 0, 0, 0) ELSE r
Intersect(a, b) ==
    NullIfEmpty(Rect(Max(a.xmin, b.xmin), Min(a.xmax, b.xmax),
                     Max(a.ymin, b.ymin), Min(a.ymax, b.ymax)))
InRect(p, r) == r.xmin <= p[1] /\ p[1] <= r.xmax /\ r.ymin <= p[2] /\ p[2] <= r.ymax

(************************* edge_detector.py ********************************)
\* raster pixels (column, row from the top) that the detector marks as
\* contour ink: a contour line running east, then south-east
RasterInk == {<<0, 4>>, <<1, 4>>, <<2, 5>>, <<3, 6>>}

EDGE_MAX_VALUE == 255
\* EDGE_COST_BASE_MULTIPLIER and EDGE_COST_WEIGHT_SCALE, in thousandths
EDGE_COST_BASE_MULTIPLIER == 100
EDGE_COST_WEIGHT_SCALE == 900
\* default of get_edge_cost_map's edge_weight parameter, in thousandths
DefaultEdgeWeight == 500

Cells(w, h) == (0..(w - 1)) \X (0..(h - 1))

\* An image tile read for a window: [w, h, ox, oy] with (ox, oy) the raster
\* pixel of its top-left corner.  The edge mask returned by detect_edges is
\* [w, h, ink] with ink the set of cells (x, y) that hold EDGE_MAX_VALUE,
\* every other cell holding 0.
detect_edges(image) ==
    [w |-> image.w, h |-> image.h,
     ink |-> {c \in Cells(image.w, image.h) : <<c[1] + image.ox, c[2] + image.oy>> \in RasterInk}]
EdgeAt(edges, c) == IF c \in edges.ink THEN EDGE_MAX_VALUE ELSE 0

\* cv2.distanceTransform(.., DIST_L2, 5): chamfer distance with the 5x5 mask
\* weights 1, 1.4 and 2.1969, in units of 1/10000 pixel; dx >= dy >= 0
ChamferSorted(dx, dy) ==
    IF dx >= 2 * dy THEN dy * 21969 + (dx - 2 * dy) * 10000
    ELSE (dx - dy) * 21969 + (2 * dy - dx) * 14000
ChamferAbs(ax, ay) == IF ax > ay THEN ChamferSorted(ax, ay) ELSE ChamferSorted(ay, ax)
Chamfer(p, q) == ChamferAbs(Abs(p[1] - q[1]), Abs(p[2] - q[2]))
SetMin(S) == CHOOSE m \in S : \A o \in S : m <= o

\* what the transform leaves in every cell of an image without a zero pixel
\* (a mask without edge cells): its initial distance, about 8192 pixels
NoEdgeDistance == 81920000
\* cv2.distanceTransform(cv2.bitwise_not(edges), DIST_L2, 5) at cell c, in
\* units of 1/10000 pixel
distanceTransform(edges, c) ==
    IF edges.ink = {} THEN NoEdgeDistance
    ELSE SetMin({Chamfer(c, e) : e \in edges.ink})
\* floor(a * b / unit) without leaving 32 bits
MulDiv(a, b, unit) == (a \div unit) * b + ((a % unit) * b) \div unit

\* a variant without the base multiplier: edge_weight 0 costs nothing
CostMultiplierNoBase(edge_weight) == (edge_weight * EDGE_COST_WEIGHT_SCALE) \div 1000
\* get_edge_cost_map(edges, edge_weight), edge_weight in thousandths: the
\* array 1.0 + dist * (0.1 + edge_weight * 0.9), in thousandths, as
\* [w, h, data]
CostMultiplier(edge_weight) ==
    EDGE_COST_BASE_MULTIPLIER + (edge_weight * EDGE_COST_WEIGHT_SCALE) \div 1000
get_edge_cost_map(edges, edge_weight) ==
    [w |-> edges.w, h |-> edges.h,
     data |-> [c \in Cells(edges.w, edges.h) |->
                 1000 + MulDiv(distanceTransform(edges, c), CostMultiplier(edge_weight), 10000)]]
CostAt(cost_map, c) == cost_map.data[c]

(******************** pixel <-> map (smart_trace_tool.py) ******************)
\* sub-pixel coordinates (the moving average of find_optimal_path) are kept
\* in units of 1/PixScale pixel
PixScale == 60

\* map_to_pixel: int((x - x_min) / px_w), int((y_max - y) / px_h)
map_to_pixel(t, map_point) ==
    <<TruncDiv(map_point[1] - t.x_min, t.px_w), TruncDiv(t.y_max - map_point[2], t.px_h)>>

\* pixel_to_map, for a pixel position given in units of 1/PixScale pixel
pixel_to_map(t, px, py) ==
    <<t.x_min + (px * t.px_w) \div PixScale, t.y_max - (py * t.px_h) \div PixScale>>

(************************** find_optimal_path *******************************)
\* floor of max_iter: max(100000, manhattan_dist * 500)
MaxIterFloor == 100000
MaxIterPerDist == 500
\* move_cost of a diagonal step, in thousandths
DiagMoveCost == 1414
WindowSize == 5

Dirs == {<<-1, 0>>, <<1, 0>>, <<0, -1>>, <<0, 1>>, <<-1, -1>>, <<-1, 1>>, <<1, -1>>, <<1, 1>>}

\* heapq orders the tuples (priority, x, y) lexicographically
HeapLess(a, b) ==
    \/ a[1] < b[1]
    \/ a[1] = b[1] /\ a[2] < b[2]
    \/ a[1] = b[1] /\ a[2] = b[2] /\ a[3] < b[3]
heappop(pq) == CHOOSE m \in pq : \A o \in pq : o = m \/ HeapLess(m, o)

\* math.sqrt(ax**2 + ay**2) in thousandths, for ax >= ay >= 0: the root
\* lies between ax and ax + 0.415 * ay
HypotSorted(ax, ay) ==
    ISqrtR(1000000 * (ax * ax + ay * ay), 1000 * ax, 1000 * ax + 415 * ay)
Hypot(ax, ay) == IF ax > ay THEN HypotSorted(ax, ay) ELSE HypotSorted(ay, ax)
\* heuristic: math.sqrt((end_px-nx)**2 + (end_py-ny)**2)
Heuristic(n, goal) == Hypot(Abs(goal[1] - n[1]), Abs(goal[2] - n[2]))
\* abs(end_px - cx) + abs(end_py - cy)
Manhattan(a, b) == Abs(b[1] - a[1]) + Abs(b[2] - a[2])

\* the neighbours of c inside the array
Neighbours(c, w, h) ==
    {n \in {<<c[1] + dd[1], c[2] + dd[2]>> : dd \in Dirs} :
        0 <= n[1] /\ n[1] < w /\ 0 <= n[2] /\ n[2] < h}
move_cost(c, n) == IF n[1] # c[1] /\ n[2] # c[2] THEN DiagMoveCost ELSE 1000
\* a variant that never lowers the cost of a pixel it has seen
ImprovedOnce(st, cost, c) ==
    {nc \in {<<n, st.cost_so_far[c] + MulDiv(CostAt(cost, n), move_cost(c, n), 1000)>> :
                n \in Neighbours(c, cost.w, cost.h)} :
        nc[1] \notin DOMAIN st.cost_so_far}
\* the pairs (neighbour, new_cost) that pass the test of line 565
Improved(st, cost, c) ==
    {nc \in {<<n, st.cost_so_far[c] + MulDiv(CostAt(cost, n), move_cost(c, n), 1000)>> :
                n \in Neighbours(c, cost.w, cost.h)} :
        nc[1] \notin DOMAIN st.cost_so_far \/ nc[2] < st.cost_so_far[nc[1]]}
\* lines 566-571 for all of them
Relax(st, goal, c, upd) ==
    [st EXCEPT
       !.pq = @ \cup {<<nc[2] + Heuristic(nc[1], goal), nc[1][1], nc[1][2]>> : nc \in upd},
       !.cost_so_far = [n \in {nc[1] : nc \in upd} |-> (CHOOSE nc \in upd : nc[1] = n)[2]] @@ @,
       !.came_from = [n \in {nc[1] : nc \in upd} |-> c] @@ @]
\* "Track best progress" (lines 543-547)
TrackBest(st, c, dist_to_target) ==
    IF st.min_dist = Inf \/ dist_to_target < st.min_dist
    THEN [st EXCEPT !.min_dist = dist_to_target, !.best_node = c]
    ELSE st

\* a variant that gives up one iteration late
BudgetSpentLate(iter_count, max_iter) == iter_count > max_iter + 1
\* "if iter_count > max_iter: break" (line 537)
BudgetSpent(iter_count, max_iter) == iter_count > max_iter

\* The search loop (lines 535-571).  st holds pq, came_from, cost_so_far,
\* iter_count, best_node, min_dist (min_dist_to_target) and found.
RECURSIVE SearchLoop(_, _, _, _)
SearchVisit(st, goal, cost, max_iter, c) ==
    IF c = goal THEN [st EXCEPT !.found = TRUE]
    ELSE SearchLoop(Relax(st, goal, c, Improved(st, cost, c)), goal, cost, max_iter)
SearchPop(st, goal, cost, max_iter, top) ==
    SearchVisit(TrackBest([st EXCEPT !.pq = @ \ {top}, !.iter_count = @ + 1],
                          <<top[2], top[3]>>, Manhattan(<<top[2], top[3]>>, goal)),
                goal, cost, max_iter, <<top[2], top[3]>>)
SearchLoop(st, goal, cost, max_iter) ==
    IF st.pq = {} THEN st
    ELSE IF BudgetSpent(st.iter_count + 1, max_iter) THEN [st EXCEPT !.iter_count = @ + 1]
    ELSE SearchPop(st, goal, cost, max_iter, heappop(st.pq))

SearchInit(start) ==
    [pq |-> {<<0, start[1], start[2]>>}, came_from |-> [n \in {} |-> n],
     cost_so_far |-> (start :> 0), iter_count |-> 0,
     best_node |-> NonePt, min_dist |-> Inf, found |-> FALSE]

\* Reconstruct path (lines 593-600): from the end pixel back along came_from
\* until the start pixel (excluded) or a pixel without predecessor
\* a variant that keeps every other pixel only
RECURSIVE ReconstructSubsampled(_, _, _, _)
ReconstructSubsampled(came_from, curr, start, acc) ==
    IF curr = start THEN acc
    ELSE IF curr \notin DOMAIN came_from THEN <<curr>> \o acc
    ELSE IF came_from[curr] = start \/ came_from[curr] \notin DOMAIN came_from
    THEN <<curr>> \o acc
    ELSE ReconstructSubsampled(came_from, came_from[came_from[curr]], start, <<curr>> \o acc)
RECURSIVE Reconstruct(_, _, _, _)
Reconstruct(came_from, curr, start, acc) ==
    IF curr = start THEN acc
    ELSE IF curr \notin DOMAIN came_from THEN <<curr>> \o acc
    ELSE Reconstruct(came_from, came_from[curr], start, <<curr>> \o acc)

RECURSIVE SeqSum(_, _, _, _)
SeqSum(s, k, lo, hi) == IF lo > hi THEN 0 ELSE s[lo][k] + SeqSum(s, k, lo + 1, hi)

\* 5-point moving average (lines 604-617); result in units of 1/PixScale
WindowMean(path, lo, hi) ==
    <<(SeqSum(path, 1, lo, hi) * PixScale) \div (hi - lo + 1),
      (SeqSum(path, 2, lo, hi) * PixScale) \div (hi - lo + 1)>>
MovingAverage(path) ==
    IF Len(path) > WindowSize
    THEN [i \in 1..Len(path) |->
            WindowMean(path, Max(1, i - WindowSize \div 2), Min(Len(path), i + WindowSize \div 2))]
    ELSE [i \in 1..Len(path) |-> <<path[i][1] * PixScale, path[i][2] * PixScale>>]

\* max(0, min(w-1, px)), max(0, min(h-1, py))
ClampPx(p, w, h) == <<Max(0, Min(w - 1, p[1])), Max(0, Min(h - 1, p[2]))>>

\* lines 573-600: the search's outcome as [found, end, st, path], path being
\* the pixel path before smoothing
SearchResult(s, e, st) ==
    IF st.found
    THEN [found |-> TRUE, end |-> e, st |-> st, path |-> Reconstruct(st.came_from, e, s, <<>>)]
    ELSE IF st.best_node # NonePt
    THEN [found |-> TRUE, end |-> st.best_node, st |-> st,
          path |-> Reconstruct(st.came_from, st.best_node, s, <<>>)]
    ELSE [found |-> FALSE, end |-> e, st |-> st, path |-> <<>>]
\* lines 519-600 for a given max_iter
SearchWithin(cost, s, e, max_iter) ==
    SearchResult(s, e, SearchLoop(SearchInit(s), e, cost, max_iter))
\* lines 519-600, from the clamped start pixel s to the clamped end pixel e;
\* floor is the 100000 of max_iter
SearchFrom(cost, s, e, floor) ==
    SearchWithin(cost, s, e, Max(floor, Manhattan(s, e) * MaxIterPerDist))
\* lines 503-515
GridSearch(t, cost, start_point, target_point, floor) ==
    SearchFrom(cost, ClampPx(map_to_pixel(t, start_point), cost.w, cost.h),
               ClampPx(map_to_pixel(t, target_point), cost.w, cost.h), floor)

\* lines 619-626
PathToMap(t, smoothed_path) ==
    IF smoothed_path = <<>> THEN <<>>
    ELSE [i \in 1..Len(smoothed_path) |->
            pixel_to_map(t, smoothed_path[i][1], smoothed_path[i][2])]
\* lines 591-630
PathOrSegment(t, g, target_point) ==
    IF g.found THEN PathToMap(t, MovingAverage(g.path)) ELSE <<target_point>>

\* find_optimal_path(target_point): [raised, path].  Reading self.cached_cost
\* before any assignment to it raises AttributeError (line 499 is outside the
\* try block).
find_optimal_path(cached_cost, cache_transform, path_points, target_point) ==
    IF cached_cost = Unset THEN [raised |-> TRUE, path |-> <<>>]
    ELSE IF cached_cost = NoneVal \/ path_points = <<>>
    THEN [raised |-> FALSE, path |-> <<target_point>>]
    ELSE [raised |-> FALSE,
          path |-> PathOrSegment(cache_transform,
                                 GridSearch(cache_transform, cached_cost, Last(path_points),
                                            target_point, MaxIterFloor),
                                 target_point)]

(****************************** smooth_bezier ******************************)
ChaikinIterations == 3

\* q = p0 * 0.75 + p1 * 0.25 and r = p0 * 0.25 + p1 * 0.75
ChaikinQ(p0, p1) == <<(3 * p0[1] + p1[1]) \div 4, (3 * p0[2] + p1[2]) \div 4>>
ChaikinR(p0, p1) == <<(p0[1] + 3 * p1[1]) \div 4, (p0[2] + 3 * p1[2]) \div 4>>
\* the q and r of the first count segments (lines 1112-1121)
ChaikinSegments(pts, count) ==
    [k \in 1..(2 * count) |->
        IF k % 2 = 1
        THEN ChaikinQ(pts[(k + 1) \div 2], pts[(((k + 1) \div 2) % Len(pts)) + 1])
        ELSE ChaikinR(pts[k \div 2], pts[((k \div 2) % Len(pts)) + 1])]
\* a variant that keeps neither end of an open path
ChaikinPassNoEnds(pts, closed) ==
    ChaikinSegments(pts, IF closed THEN Len(pts) ELSE Len(pts) - 1)
\* one corner-cutting pass (lines 1104-1127)
ChaikinPass(pts, closed) ==
    IF closed THEN ChaikinSegments(pts, Len(pts))
    ELSE <<pts[1]>> \o ChaikinSegments(pts, Len(pts) - 1) \o <<pts[Len(pts)]>>

RECURSIVE ChaikinLoop(_, _, _)
ChaikinLoop(pts, closed, k) ==
    IF k = 0 \/ Len(pts) < 3 THEN pts
    ELSE ChaikinLoop(ChaikinPass(pts, closed), closed, k - 1)

\* smooth_bezier returns at line 1130; the subsampling below it is dead code
smooth_bezier(points, closed) ==
    IF Len(points) < 3 THEN points
    ELSE ChaikinLoop(points, closed, ChaikinIterations)

\* "if len(path) > 2: path = smooth_bezier(path, closed=False)" of the close
\* click (lines 232-233) and of the hover preview (lines 362-365)
SmoothIfLong(path) == IF Len(path) > 2 THEN smooth_bezier(path, FALSE) ELSE path

(***************************** the vector layers ***************************)
\* A feature of the line layer: [parts, multi, elev].  parts is the list of
\* its polylines; multi is geom.isMultipart().  Feature ids are positions in
\* the layer's feature list.
LineFeature(pts, elev) == [parts |-> <<pts>>, multi |-> FALSE, elev |-> elev]
featureCount(layer) == Len(layer)

\* squared distance; it is only ever compared with the square of a tolerance
\* below DistCap, so it saturates there (TLC's integers are 32 bits wide)
DistCap == 30000
Dist2(p, q) ==
    IF Abs(p[1] - q[1]) >= DistCap \/ Abs(p[2] - q[2]) >= DistCap THEN 2 * DistCap * DistCap
    ELSE (p[1] - q[1]) * (p[1] - q[1]) + (p[2] - q[2]) * (p[2] - q[2])

\* snap_to_existing_endpoint: (best_point, best_fid, best_is_start) as the
\* record [pt, fid, is_start]; the loop over the features keeps the nearest
\* endpoint strictly closer than the tolerance
SnapTolerancePx == 10
\* lines 786-801 for one endpoint p of feature fid
SnapEndpoint(best, p, fid, is_start, point) ==
    IF Dist2(p, point) < best.min_d2
    THEN [pt |-> p, fid |-> fid, is_start |-> is_start, min_d2 |-> Dist2(p, point)]
    ELSE best
RECURSIVE SnapLoop(_, _, _, _)
SnapLoop(layer, point, i, best) ==
    IF i > Len(layer) THEN best
    ELSE IF layer[i].parts[1] = <<>> THEN SnapLoop(layer, point, i + 1, best)
    ELSE SnapLoop(layer, point, i + 1,
                  SnapEndpoint(SnapEndpoint(best, layer[i].parts[1][1], i, TRUE, point),
                               Last(layer[i].parts[1]), i, FALSE, point))
SnapResult(b) == [pt |-> b.pt, fid |-> b.fid, is_start |-> b.is_start]
snap_to_existing_endpoint(layer, point) ==
    IF featureCount(layer) = 0 THEN [pt |-> NonePt, fid |-> NoneId, is_start |-> FALSE]
    ELSE SnapResult(SnapLoop(layer, point, 1,
                             [pt |-> NonePt, fid |-> NoneId, is_start |-> FALSE,
                              min_d2 |-> (MUPP * SnapTolerancePx) * (MUPP * SnapTolerancePx)]))

\* is_near_start: base_tol 20 screen pixels, 30 while only the start exists
CloseTolPx == 20
SpotTolPx == 30
CloseThreshold(path_points) ==
    MUPP * (IF Len(path_points) = 1 THEN SpotTolPx ELSE CloseTolPx)
is_near_start(start_point, path_points, point) ==
    IF start_point = NonePt THEN FALSE
    ELSE Dist2(point, start_point) < CloseThreshold(path_points) * CloseThreshold(path_points)

\* angle_constrained_snap (lines 377-442)
SnapRadius == 6
\* directions are compared at a resolution of AngleUnit map units
AngleUnit == 64
\* math.atan2(0, 0) is 0, the direction of the x axis
Quantised(a) ==
    IF a = <<0, 0>> THEN <<1, 0>>
    ELSE <<TruncDiv(a[1], AngleUnit), TruncDiv(a[2], AngleUnit)>>
Norm(a) == ISqrtR(a[1] * a[1] + a[2] * a[2], 0, Abs(a[1]) + Abs(a[2]))
\* the angle between uu and vv is at most 60 degrees: cos >= 1/2
WithinSixty(uu, vv) == 2 * (uu[1] * vv[1] + uu[2] * vv[2]) >= Norm(uu) * Norm(vv)
AngleOk(u, v) == WithinSixty(Quantised(u), Quantised(v))
Direction(a, b) == <<b[1] - a[1], b[2] - a[2]>>

\* the edge pixels of the window around p that pass the angle filter
SnapCandidates(cached_edges, t, path_points, p) ==
    {n \in cached_edges.ink :
        /\ Abs(n[1] - p[1]) <= SnapRadius
        /\ Abs(n[2] - p[2]) <= SnapRadius
        /\ Manhattan(n, p) < SnapRadius + 1
        /\ EdgeAt(cached_edges, n) > 128
        /\ (Len(path_points) >= 2 =>
              AngleOk(Direction(path_points[Len(path_points) - 1], Last(path_points)),
                      Direction(Last(path_points),
                                pixel_to_map(t, n[1] * PixScale, n[2] * PixScale))))}
\* the first candidate, in loop order (dy outer, dx inner), of least distance
NearestCandidate(cand, p) ==
    CHOOSE n \in cand : \A o \in cand :
        o = n \/ HeapLess(<<Manhattan(n, p), n[2], n[1]>>, <<Manhattan(o, p), o[2], o[1]>>)
\* "Gentle blend: 30% edge, 70% mouse"
Blend(map_point, edge_point) ==
    <<(7 * map_point[1] + 3 * edge_point[1]) \div 10,
      (7 * map_point[2] + 3 * edge_point[2]) \div 10>>
BlendToNearest(t, map_point, best) ==
    Blend(map_point, pixel_to_map(t, best[1] * PixScale, best[2] * PixScale))
SnapAmong(t, map_point, p, cand) ==
    IF cand = {} THEN map_point ELSE BlendToNearest(t, map_point, NearestCandidate(cand, p))
SnapAround(cached_edges, t, path_points, map_point, p) ==
    IF p[1] < 0 \/ p[2] < 0 \/ p[1] >= cached_edges.w \/ p[2] >= cached_edges.h
    THEN map_point
    ELSE SnapAmong(t, map_point, p, SnapCandidates(cached_edges, t, path_points, p))
angle_constrained_snap(cached_edges, t, path_points, map_point) ==
    IF cached_edges = NoneVal THEN map_point
    ELSE SnapAround(cached_edges, t, path_points, map_point, map_to_pixel(t, map_point))

(******************************** the state ********************************)
VARIABLES
    phase,              \* "constructed", "active" (the canvas's map tool) or "deactivated"
    freehand,           \* constructor argument
    edge_weight,        \* constructor argument, in thousandths
    extent,             \* canvas.extent()
    vector_layer,       \* features of self.vector_layer
    spot_height_layer,  \* features of the "Spot Heights" layer
    is_tracing, path_points, preview_path, checkpoints, start_point,
    last_map_point, last_hover_pos, sample_interval,
    preview_from,       \* path_points[-1] as it was when preview_path was last
                        \* assigned a path (history; None while it is [] by assignment)
    resume_feature_id, resume_at_start,
    cached_edges, cache_extent, cache_transform, cached_cost,
    moves,              \* pointer moves since last_hover_pos was last None
    pans,               \* changes of the canvas extent so far
    sink_calls,         \* feature-sink calls so far
    edit_buffers,       \* the layers ("vector", "spot") left in edit mode with
                        \* added or changed features not committed
    probe,              \* a call of get_edge_cost_map and find_optimal_path on
                        \* inputs of its own (NoProbe while the tool runs)
    ev                  \* what the last handler did:
                        \* [op, raised, prompts, answered, creates, updates, spots,
                        \*  points, appended, searched, run]

env_vars == <<phase, freehand, edge_weight, extent, pans, probe>>
layer_vars == <<vector_layer, spot_height_layer, sink_calls, edit_buffers>>
trace_vars == <<is_tracing, path_points, preview_path, checkpoints, start_point,
                last_map_point, last_hover_pos, sample_interval, moves, preview_from>>
resume_vars == <<resume_feature_id, resume_at_start>>
cache_vars == <<cached_edges, cache_extent, cache_transform, cached_cost>>
vars == <<env_vars, layer_vars, trace_vars, resume_vars, cache_vars, ev>>

(************************* bounds of the exploration ***********************)
\* confirm clicks per session
MaxConfirms == 2
\* pointer moves between two resets of last_hover_pos
MaxMoves == 1
\* feature-sink calls after which the exploration stops
MaxSinkCalls == 1
\* changes of the canvas extent
MaxPans == 1

(************************** inputs of the operator *************************)
\* pointer positions (map coordinates)
PtS == <<0 - 1920, 21120>>
PtF == <<5760, 21120>>
PtG == <<13440, 13440>>
Pts == {PtS, PtF, PtG}
\* a line of the output layer whose end lies 6 screen pixels from PtF
ExistingLine == <<<<5760, 36000>>, <<9600, 30000>>, <<6360, 21120>>>>
\* a multipart feature whose first part starts 6 screen pixels from PtG
ExistingMulti == [parts |-> <<<<<<13440, 12840>>, <<30000, 12840>>>>,
                              <<<<30000, 30000>>, <<30000, 34000>>>>>>,
                  multi |-> TRUE, elev |-> 100]
InitialLayer == <<LineFeature(ExistingLine, 100), ExistingMulti>>
\* the same layer with the line digitised the other way round: its start lies
\* 6 screen pixels from PtF
ReversedLayer == <<LineFeature(Reverse(ExistingLine), 100), ExistingMulti>>
Views == {ViewA, ViewB}
\* QInputDialog.getDouble's (value, ok); ask_elevation returns None unless ok
Answers == {[ok |-> FALSE, value |-> 0], [ok |-> TRUE, value |-> 50]}
\* what update_edge_cache meets: "ok", "nobands" (no band block could be
\* read) or "raise" (the selected detection strategy raised inside
\* detect_edges, whose lines 93-98 are outside its try block)
Outcomes == {"ok", "nobands", "raise"}

\* ev.run counts the confirm clicks made since the start click with nothing
\* but hover moves in between, and the undos made since the last of them;
\* NoRun once anything else happened
NoRun == [confirms |-> 0 - 1, undos |-> 0]
\* ev.points is len(self.path_points) when the handler began, ev.appended
\* what it was after a close click's line 235; ev.searched: the handler's call
\* of find_optimal_path got past line 500 and read the cached cost field;
\* ev.detector: "ok" or "raised" when the handler's update_edge_cache called
\* detect_edges, "none" otherwise
NoEv(op) == [op |-> op, raised |-> FALSE, prompts |-> 0, answered |-> FALSE,
             creates |-> 0, updates |-> 0, spots |-> 0,
             points |-> Len(path_points), appended |-> 0, searched |-> FALSE,
             detector |-> "none", run |-> NoRun]
Keeping(op) == [NoEv(op) EXCEPT !.run = ev.run]

(****************************** update_edge_cache **************************)
\* The four cache attributes, as a record; detector tells what became of the
\* call of detect_edges
CacheNow == [cached_edges |-> cached_edges, cache_extent |-> cache_extent,
             cache_transform |-> cache_transform, cached_cost |-> cached_cost,
             detector |-> "none"]
MinWindow == 10
MaxWindow == 1000
\* lines 859-877
BuildCache(read_ext, out_w, out_h, edges) ==
    [cached_edges |-> edges,
     cache_extent |-> read_ext,
     cache_transform |-> [x_min |-> read_ext.xmin, y_max |-> read_ext.ymax,
                          px_w |-> RectWidth(read_ext) \div out_w,
                          px_h |-> RectHeight(read_ext) \div out_h,
                          width |-> out_w, height |-> out_h],
     cached_cost |-> get_edge_cost_map(edges, DefaultEdgeWeight),
     detector |-> "ok"]
\* lines 838-882
ReadWindow(c, read_ext, out_w, out_h, outcome) ==
    IF out_w < MinWindow \/ out_h < MinWindow THEN c
    ELSE IF outcome = "nobands" THEN c
    ELSE IF outcome = "raise"
    THEN [c EXCEPT !.cached_edges = NoneVal, !.cached_cost = NoneVal,
                   !.detector = "raised"]
    ELSE BuildCache(read_ext, out_w, out_h,
                    detect_edges([w |-> out_w, h |-> out_h,
                                  ox |-> (read_ext.xmin - raster_ext.xmin) \div RasterRes,
                                  oy |-> (raster_ext.ymax - read_ext.ymax) \div RasterRes]))
\* lines 830-836
ReadExtent(c, read_ext, outcome) ==
    IF RectIsEmpty(read_ext) THEN c
    ELSE ReadWindow(c, read_ext, Min(MaxWindow, RectWidth(read_ext) \div RasterRes),
                    Min(MaxWindow, RectHeight(read_ext) \div RasterRes), outcome)
update_edge_cache(c, ext, outcome) == ReadExtent(c, Intersect(ext, raster_ext), outcome)

SetCache(c) ==
    /\ cached_edges' = c.cached_edges
    /\ cache_extent' = c.cache_extent
    /\ cache_transform' = c.cache_transform
    /\ cached_cost' = c.cached_cost

(******************************* reset_tracing *****************************)
\* a variant that forgets to clear the preview
reset_keeping_preview ==
    /\ is_tracing' = FALSE
    /\ path_points' = <<>>
    /\ checkpoints' = <<>>
    /\ start_point' = NonePt
    /\ last_map_point' = NonePt
    /\ last_hover_pos' = NonePt
    /\ moves' = 0
    /\ UNCHANGED <<sample_interval, preview_path, preview_from>>
reset_tracing ==
    /\ is_tracing' = FALSE
    /\ path_points' = <<>>
    /\ preview_path' = <<>>
    /\ preview_from' = NonePt
    /\ checkpoints' = <<>>
    /\ start_point' = NonePt
    /\ last_map_point' = NonePt
    /\ last_hover_pos' = NonePt
    /\ moves' = 0
    /\ UNCHANGED sample_interval

(******************************* save_to_layer *****************************)
\* save_to_layer's effect as [raised, path_points, layer, resume_feature_id,
\* creates, updates]
Saved(raised, path, layer, rid, creates, updates) ==
    [raised |-> raised, path_points |-> path, layer |-> layer,
     resume_feature_id |-> rid, creates |-> creates, updates |-> updates]
\* lines 936-940: smoothed aliases self.path_points, so the append changes it
\* a variant that never closes the loop
CloseRingNever(path, closed) == path
\* a variant that closes only loops of three points or more
CloseRingFromThree(path, closed) ==
    IF closed /\ Len(path) >= 3 /\ Last(path) # path[1] THEN Append(path, path[1]) ELSE path
CloseRing(path, closed) ==
    IF closed /\ Len(path) >= 2 /\ Last(path) # path[1] THEN Append(path, path[1]) ELSE path
\* a variant that ignores which end was touched
merged_at_end(smoothed, existing_lines, rstart) == existing_lines \o Tail(smoothed)
\* lines 958-982
merged_points(smoothed, existing_lines, rstart) ==
    IF rstart THEN Front(Reverse(smoothed)) \o existing_lines
    ELSE existing_lines \o Tail(smoothed)
\* lines 945-1028.  For a multipart feature existing_lines is never bound and
\* the merge raises UnboundLocalError after resume_feature_id was cleared.
SaveSmoothed(smoothed, layer, rid, rstart, closed, elevation) ==
    IF rid # NoneId /\ ~closed /\ rid \in 1..Len(layer)
    THEN IF layer[rid].multi
         THEN Saved(TRUE, smoothed, layer, NoneId, 0, 0)
         ELSE Saved(FALSE, smoothed,
                    [layer EXCEPT ![rid].parts =
                        <<merged_points(smoothed, layer[rid].parts[1], rstart)>>],
                    NoneId, 0, 1)
    ELSE Saved(FALSE, smoothed, Append(layer, LineFeature(smoothed, elevation)), rid, 1, 0)
save_to_layer(path, layer, rid, rstart, closed, elevation) ==
    IF Len(path) < 2 THEN Saved(FALSE, path, layer, rid, 0, 0)
    ELSE SaveSmoothed(CloseRing(path, closed), layer, rid, rstart, closed, elevation)

(***************************** undo_to_checkpoint **************************)
\* undo_to_checkpoint's effect as [path_points, checkpoints, last_map_point, reset]
Undone(path, cps, lmp, reset) ==
    [path_points |-> path, checkpoints |-> cps, last_map_point |-> lmp, reset |-> reset]
\* lines 656-660
TrimmedTo(trimmed, cps, lmp) ==
    Undone(trimmed, cps, IF trimmed # <<>> THEN Last(trimmed) ELSE lmp, FALSE)
\* lines 650-656, cps being the checkpoints after the pop
TrimToLast(path, cps, lmp) ==
    IF cps = <<>> THEN Undone(path, cps, lmp, TRUE)
    ELSE TrimmedTo(Prefix(path, Last(cps) + 1), cps, lmp)
\* a variant that never steps back to the previous checkpoint
undo_trim_only(path, cps, lmp) ==
    IF Len(cps) <= 1 THEN Undone(path, cps, lmp, FALSE) ELSE TrimToLast(path, cps, lmp)
\* a variant without the guard of lines 637-639
undo_unguarded(path, cps, lmp) ==
    IF Len(path) <= Last(cps) + 1 THEN TrimToLast(path, Front(cps), lmp)
    ELSE TrimToLast(path, cps, lmp)
undo_to_checkpoint(path, cps, lmp) ==
    IF Len(cps) <= 1 THEN Undone(path, cps, lmp, FALSE)
    ELSE IF Len(path) <= Last(cps) + 1 THEN TrimToLast(path, Front(cps), lmp)
    ELSE TrimToLast(path, cps, lmp)

(********************************* handlers ********************************)
\* events reach the tool while it is the canvas's map tool
Alive == phase = "active" /\ sink_calls < MaxSinkCalls
\* the pointer is inside the canvas
OnCanvas(p) == InRect(p, extent)

\* canvasMoveEvent's stabiliser: 0.7 * last + 0.3 * current
Stabilise(last, current) ==
    IF last = NonePt THEN current
    ELSE <<(7 * last[1] + 3 * current[1]) \div 10, (7 * last[2] + 3 * current[2]) \div 10>>

\* what a handler that took a prompt answer and called the sink recorded
Answered(e, r) ==
    [e EXCEPT !.raised = r.raised, !.prompts = 1, !.answered = TRUE,
              !.creates = r.creates, !.updates = r.updates]
Cancelled(e) == [e EXCEPT !.prompts = 1]

\* activate(): builds the cache and connects extentsChanged
Activate(outcome) ==
    /\ phase = "constructed"
    /\ phase' = "active"
    /\ SetCache(update_edge_cache(CacheNow, extent, outcome))
    /\ ev' = [NoEv("activate") EXCEPT
                !.detector = update_edge_cache(CacheNow, extent, outcome).detector]
    /\ UNCHANGED <<freehand, edge_weight, extent, pans, probe, layer_vars, trace_vars,
                   resume_vars>>

\* deactivate(): disconnects extentsChanged and resets the session
Deactivate ==
    /\ Alive
    /\ phase' = "deactivated"
    /\ reset_tracing
    /\ ev' = NoEv("deactivate")
    /\ UNCHANGED <<freehand, edge_weight, extent, pans, probe, layer_vars, resume_vars,
                   cache_vars>>

\* canvas.extentsChanged -> update_edge_cache
ExtentsChanged(v, outcome) ==
    /\ Alive
    /\ pans < MaxPans
    /\ v # extent
    /\ extent' = v
    /\ pans' = pans + 1
    /\ SetCache(update_edge_cache(CacheNow, v, outcome))
    /\ ev' = [Keeping("extent") EXCEPT
                !.detector = update_edge_cache(CacheNow, v, outcome).detector]
    /\ UNCHANGED <<phase, freehand, edge_weight, probe, layer_vars, trace_vars,
                   resume_vars>>

\* lines 188-215, place_point being the snapped endpoint or the click
PlaceStart(snap, place_point, outcome) ==
    /\ resume_feature_id' = snap.fid
    /\ resume_at_start' = snap.is_start
    /\ is_tracing' = TRUE
    /\ start_point' = place_point
    /\ last_map_point' = place_point
    /\ path_points' = <<place_point>>
    /\ checkpoints' = <<0>>
    /\ sample_interval' = MUPP * 18
    /\ IF ~freehand THEN SetCache(update_edge_cache(CacheNow, extent, outcome))
       ELSE UNCHANGED cache_vars
    /\ ev' = [NoEv("start") EXCEPT
                !.run = [confirms |-> 0, undos |-> 0],
                !.detector = IF ~freehand
                             THEN update_edge_cache(CacheNow, extent, outcome).detector
                             ELSE "none"]
    /\ UNCHANGED <<env_vars, layer_vars, preview_path, preview_from, last_hover_pos, moves>>
StartAt(snap, point, outcome) ==
    PlaceStart(snap, IF snap.pt # NonePt THEN snap.pt ELSE point, outcome)
\* canvasPressEvent, left button, not tracing (lines 182-215)
StartClick(point, outcome) ==
    /\ Alive /\ OnCanvas(point)
    /\ ~is_tracing
    /\ StartAt(snap_to_existing_endpoint(vector_layer, point), point, outcome)

\* save_to_layer returned or raised; reset_tracing follows only if it returned
AfterSave(e, r) ==
    /\ vector_layer' = r.layer
    /\ resume_feature_id' = r.resume_feature_id
    /\ sink_calls' = sink_calls + r.creates + r.updates
    \* startEditing, addFeature or changeGeometry, commitChanges (lines 993-1000
    \* and 1057-1064)
    /\ edit_buffers' = IF r.creates + r.updates > 0
                       THEN (edit_buffers \cup {"vector"}) \ {"vector"}
                       ELSE edit_buffers
    /\ ev' = Answered(e, r)
    /\ IF r.raised THEN UNCHANGED trace_vars ELSE reset_tracing
    /\ UNCHANGED <<env_vars, spot_height_layer, resume_at_start, cache_vars>>
\* the prompt was cancelled, or there was nothing to ask about
Discard(e) ==
    /\ ev' = e
    /\ reset_tracing
    /\ UNCHANGED <<env_vars, layer_vars, resume_vars, cache_vars>>
\* a variant that asks for the elevation of a single point too
FinishFromOne(ans) ==
    IF Len(path_points) < 1 THEN Discard(NoEv("finish"))
    ELSE IF ~ans.ok THEN Discard(Cancelled(NoEv("finish")))
    ELSE AfterSave(NoEv("finish"), save_to_layer(path_points, vector_layer, resume_feature_id,
                                                 resume_at_start, FALSE, ans.value))
\* a variant that commits the preview too (the code commented out at lines
\* 161-162 and 482-483)
FinishWithPreview(ans) ==
    IF Len(path_points) < 2 THEN Discard(NoEv("finish"))
    ELSE IF ~ans.ok THEN Discard(Cancelled(NoEv("finish")))
    ELSE AfterSave(NoEv("finish"), save_to_layer(path_points \o preview_path, vector_layer,
                                                 resume_feature_id, resume_at_start, FALSE,
                                                 ans.value))
\* the finish branch shared by the right click (lines 164-175) and Enter
\* (lines 485-492); the preview is not included
Finish(ans) ==
    IF Len(path_points) < 2 THEN Discard(NoEv("finish"))
    ELSE IF ~ans.ok THEN Discard(Cancelled(NoEv("finish")))
    ELSE AfterSave(NoEv("finish"), save_to_layer(path_points, vector_layer, resume_feature_id,
                                                 resume_at_start, FALSE, ans.value))
\* a handler that returns at once
Ignored ==
    /\ ev' = NoEv("idle")
    /\ UNCHANGED <<env_vars, layer_vars, trace_vars, resume_vars, cache_vars>>

\* canvasPressEvent, right button (lines 154-175)
RightClick ==
    /\ Alive
    /\ IF ~is_tracing THEN Ignored ELSE \E ans \in Answers : Finish(ans)

\* a variant that returns at line 808 as if there were no layer
create_spot_height_no_layer(layer, point, elevation) == layer
\* create_spot_height (lines 805-820): one point feature, no commit
create_spot_height(layer, point, elevation) ==
    Append(layer, [pt |-> point, elev |-> elevation])
\* canvasPressEvent, left button near the only point (lines 218-225)
SpotClick(point) ==
    /\ Alive /\ OnCanvas(point)
    /\ is_tracing
    /\ is_near_start(start_point, path_points, point)
    /\ Len(path_points) = 1
    /\ \E ans \in Answers :
         IF ans.ok
         THEN /\ spot_height_layer' = create_spot_height(spot_height_layer, start_point, ans.value)
              /\ sink_calls' = sink_calls + 1
              \* startEditing, addFeature and no commitChanges (lines 818-820)
              /\ edit_buffers' = edit_buffers \cup {"spot"}
              /\ ev' = [NoEv("spot") EXCEPT !.prompts = 1, !.answered = TRUE, !.spots = 1]
         ELSE /\ UNCHANGED <<spot_height_layer, sink_calls, edit_buffers>>
              /\ ev' = Cancelled(NoEv("spot"))
    /\ reset_tracing
    /\ UNCHANGED <<env_vars, vector_layer, resume_vars, cache_vars>>

\* lines 238-239
DropDuplicateEnd(path) ==
    IF Len(path) > 1 /\ Last(path) = path[1] THEN Front(path) ELSE path
\* lines 241-246, path being self.path_points after lines 235-239
CloseAsk(e, path) ==
    \E ans \in Answers :
        IF ~ans.ok THEN Discard(Cancelled(e))
        ELSE AfterSave(e, save_to_layer(path, vector_layer, resume_feature_id,
                                        resume_at_start, TRUE, ans.value))
\* find_optimal_path does not return at line 500
ConsultsCost == cached_cost \notin {Unset, NoneVal} /\ path_points # <<>>
\* lines 238-246, extended being self.path_points after line 235
CloseExtended(extended) ==
    CloseAsk([NoEv("close") EXCEPT !.appended = Len(extended), !.searched = ConsultsCost],
             DropDuplicateEnd(extended))
\* lines 229-246, fp being what find_optimal_path(self.start_point) did
CloseWith(fp) ==
    IF fp.raised
    THEN /\ ev' = [NoEv("close") EXCEPT !.raised = TRUE]
         /\ UNCHANGED <<env_vars, layer_vars, trace_vars, resume_vars, cache_vars>>
    ELSE CloseExtended(path_points \o SmoothIfLong(fp.path))
\* canvasPressEvent, left button near the start with more points (lines 227-246)
CloseClick(point) ==
    /\ Alive /\ OnCanvas(point)
    /\ is_tracing
    /\ is_near_start(start_point, path_points, point)
    /\ Len(path_points) # 1
    /\ CloseWith(find_optimal_path(cached_cost, cache_transform, path_points, start_point))

\* a variant that assigns the preview instead of extending by it
ExtendedByAssignment(point) ==
    IF preview_path # <<>> THEN preview_path
    ELSE IF Len(path_points) > 0 THEN Append(path_points, point)
    ELSE path_points
\* lines 249-260
Extended(point) ==
    IF preview_path # <<>> THEN path_points \o preview_path
    ELSE IF Len(path_points) > 0 THEN Append(path_points, point)
    ELSE path_points
\* ev.run after a confirm click
RunConfirmed(run) ==
    IF run.confirms >= 0 /\ run.undos = 0 THEN [run EXCEPT !.confirms = @ + 1] ELSE NoRun
\* a variant whose checkpoint is one past the last point
ConfirmWithLen(extended) ==
    /\ path_points' = extended
    /\ preview_path' = <<>>
    /\ preview_from' = NonePt
    /\ checkpoints' = Append(checkpoints, Len(extended))
    /\ ev' = [NoEv("confirm") EXCEPT !.run = RunConfirmed(ev.run)]
    /\ UNCHANGED <<env_vars, layer_vars, is_tracing, start_point, last_map_point,
                   last_hover_pos, sample_interval, moves, resume_vars, cache_vars>>
\* a variant that leaves the committed preview in place
ConfirmKeepingPreview(extended) ==
    /\ path_points' = extended
    /\ checkpoints' = Append(checkpoints, Len(extended) - 1)
    /\ ev' = [NoEv("confirm") EXCEPT !.run = RunConfirmed(ev.run)]
    /\ UNCHANGED <<env_vars, layer_vars, is_tracing, preview_path, preview_from,
                   start_point, last_map_point, last_hover_pos, sample_interval, moves,
                   resume_vars, cache_vars>>
\* lines 249-267
ConfirmWith(extended) ==
    /\ path_points' = extended
    /\ preview_path' = <<>>
    /\ preview_from' = NonePt
    /\ checkpoints' = Append(checkpoints, Len(extended) - 1)
    /\ ev' = [NoEv("confirm") EXCEPT !.run = RunConfirmed(ev.run)]
    /\ UNCHANGED <<env_vars, layer_vars, is_tracing, start_point, last_map_point,
                   last_hover_pos, sample_interval, moves, resume_vars, cache_vars>>
\* canvasPressEvent, left button elsewhere while tracing (lines 248-267)
ConfirmClick(point) ==
    /\ Alive /\ OnCanvas(point)
    /\ is_tracing
    /\ ~is_near_start(start_point, path_points, point)
    /\ Len(checkpoints) <= MaxConfirms
    /\ ConfirmWith(Extended(point))

\* canvasMoveEvent while not tracing (lines 271-295): only the stabiliser moves
MoveIdle(current_point) ==
    /\ Alive /\ OnCanvas(current_point)
    /\ ~is_tracing
    /\ moves < MaxMoves
    /\ last_hover_pos' = Stabilise(last_hover_pos, current_point)
    /\ moves' = moves + 1
    /\ ev' = NoEv("move_idle")
    /\ UNCHANGED <<env_vars, layer_vars, is_tracing, path_points, preview_path, preview_from,
                   checkpoints, start_point, last_map_point, sample_interval, resume_vars,
                   cache_vars>>

\* lines 326-329
final_point(current_point, manual) ==
    IF manual \/ freehand \/ cached_edges = NoneVal THEN current_point
    ELSE angle_constrained_snap(cached_edges, cache_transform, path_points, current_point)
\* lines 321-333
Drag(current_point, manual) ==
    /\ preview_path' = <<>>
    /\ preview_from' = NonePt
    /\ path_points' = Append(path_points, final_point(current_point, manual))
    /\ last_map_point' = current_point
    /\ ev' = NoEv("drag")
\* lines 359-367, fp being what find_optimal_path(ai_target_point) did
Hover(fp) ==
    /\ IF fp.raised
       THEN /\ ev' = [Keeping("hover") EXCEPT !.raised = TRUE]
            /\ UNCHANGED <<preview_path, preview_from>>
       ELSE /\ ev' = [Keeping("hover") EXCEPT !.searched = ConsultsCost]
            /\ preview_path' = SmoothIfLong(fp.path)
            /\ preview_from' = Last(path_points)
    /\ UNCHANGED <<path_points, last_map_point>>
\* canvasMoveEvent while tracing (lines 297-374); left: the left button is
\* held (drag); manual: Shift or Ctrl is held
MoveTracing(current_point, left, manual) ==
    /\ Alive /\ OnCanvas(current_point)
    /\ is_tracing
    /\ moves < MaxMoves
    /\ last_hover_pos' = Stabilise(last_hover_pos, current_point)
    /\ moves' = moves + 1
    /\ IF last_map_point = NonePt
       THEN /\ last_map_point' = current_point
            /\ ev' = Keeping("move_small")
            /\ UNCHANGED <<path_points, preview_path, preview_from>>
       ELSE IF Dist2(current_point, last_map_point) < sample_interval * sample_interval
       THEN /\ ev' = Keeping("move_small")
            /\ UNCHANGED <<path_points, preview_path, preview_from, last_map_point>>
       ELSE IF left THEN Drag(current_point, manual)
       ELSE IF path_points = <<>>
       THEN /\ ev' = Keeping("move_small")
            /\ UNCHANGED <<path_points, preview_path, preview_from, last_map_point>>
       ELSE IF manual
       THEN /\ preview_path' = <<current_point>>
            /\ preview_from' = Last(path_points)
            /\ ev' = Keeping("hover")
            /\ UNCHANGED <<path_points, last_map_point>>
       ELSE Hover(find_optimal_path(cached_cost, cache_transform, path_points,
                                    Stabilise(last_hover_pos, current_point)))
    /\ UNCHANGED <<env_vars, layer_vars, is_tracing, checkpoints, start_point,
                   sample_interval, resume_vars, cache_vars>>

\* ev.run after an undo
RunUndone(run) ==
    IF run.confirms >= 0 /\ run.undos < run.confirms THEN [run EXCEPT !.undos = @ + 1]
    ELSE NoRun
\* lines 451-452, u being what undo_to_checkpoint did
UndoWith(u) ==
    /\ ev' = [NoEv("undo") EXCEPT !.run = RunUndone(ev.run)]
    /\ IF u.reset THEN reset_tracing
       ELSE /\ path_points' = u.path_points
            /\ checkpoints' = u.checkpoints
            /\ last_map_point' = u.last_map_point
            /\ UNCHANGED <<is_tracing, preview_path, preview_from, start_point,
                           last_hover_pos, sample_interval, moves>>
\* a variant that lets the Idle undo through to the layer's undo stack, which
\* removes the feature stored last
KeyUndoUnblocked ==
    /\ Alive
    /\ IF ~is_tracing
       THEN /\ ev' = NoEv("idle")
            /\ vector_layer' = Front(vector_layer)
            /\ UNCHANGED <<trace_vars, spot_height_layer, sink_calls, edit_buffers>>
       ELSE /\ UndoWith(undo_to_checkpoint(path_points, checkpoints, last_map_point))
            /\ UNCHANGED layer_vars
    /\ UNCHANGED <<env_vars, resume_vars, cache_vars>>
\* keyPressEvent, Ctrl+Z or Backspace (lines 450-460)
KeyUndo ==
    /\ Alive
    /\ IF ~is_tracing THEN ev' = NoEv("idle") /\ UNCHANGED trace_vars
       ELSE UndoWith(undo_to_checkpoint(path_points, checkpoints, last_map_point))
    /\ UNCHANGED <<env_vars, layer_vars, resume_vars, cache_vars>>

\* keyPressEvent, Esc or Delete (lines 462-475)
KeyCancel ==
    /\ Alive
    /\ IF ~is_tracing THEN ev' = NoEv("idle") /\ UNCHANGED trace_vars
       ELSE ev' = NoEv("cancel") /\ reset_tracing
    /\ UNCHANGED <<env_vars, layer_vars, resume_vars, cache_vars>>

\* keyPressEvent, Return or Enter (lines 478-492)
KeyEnter ==
    /\ Alive
    /\ IF ~is_tracing THEN Ignored ELSE \E ans \in Answers : Finish(ans)

(****************************** specification ******************************)
\* the tool after __init__(edge_weight = weight, freehand = free), the output
\* layer holding layer's features
Constructed(layer, weight, free) ==
    /\ phase = "constructed"
    /\ freehand = free
    /\ edge_weight = weight
    /\ extent \in Views
    /\ vector_layer = layer
    /\ spot_height_layer = <<>>
    /\ is_tracing = FALSE
    /\ path_points = <<>>
    /\ preview_path = <<>>
    /\ preview_from = NonePt
    /\ checkpoints = <<>>
    /\ start_point = NonePt
    /\ last_map_point = NonePt
    /\ last_hover_pos = NonePt
    /\ sample_interval = 0
    /\ resume_feature_id = NoneId
    /\ resume_at_start = FALSE
    /\ cached_edges = NoneVal
    /\ cache_extent = NoneVal
    /\ cache_transform = NoneVal
    /\ cached_cost = Unset
    /\ moves = 0
    /\ pans = 0
    /\ sink_calls = 0
    /\ edit_buffers = {}
    /\ ev = NoEv("init")
\* the tool constructed with the default of its edge_weight parameter
InitTool(layer) == Constructed(layer, DefaultEdgeWeight, FALSE)
NoProbe == [stage |-> "off"]
InitWith(layer) == InitTool(layer) /\ probe = NoProbe
Init == InitWith(InitialLayer)

Next ==
    \/ \E o \in Outcomes : Activate(o)
    \/ Deactivate
    \/ \E v \in Views, o \in Outcomes : ExtentsChanged(v, o)
    \/ \E p \in Pts, o \in Outcomes : StartClick(p, o)
    \/ RightClick
    \/ \E p \in Pts : SpotClick(p)
    \/ \E p \in Pts : CloseClick(p)
    \/ \E p \in Pts : ConfirmClick(p)
    \/ \E p \in Pts : MoveIdle(p)
    \/ \E p \in Pts, left \in BOOLEAN, manual \in BOOLEAN : MoveTracing(p, left, manual)
    \/ KeyUndo
    \/ KeyCancel
    \/ KeyEnter

Spec == Init /\ [][Next]_vars

\* the same tool over an output layer whose line runs either way, so that a
\* start click can touch the start as well as the end of a single-part line
InitResume == \E layer \in {InitialLayer, ReversedLayer} : InitWith(layer)
SpecResume == InitResume /\ [][Next]_vars

\* the same tool constructed the way the dialog does it, with the value of
\* its slider: edge_weight = slider / 100.0, here 0.0, 0.5 or 1.0
SliderWeights == {0, 500, 1000}
InitWeights == \E weight \in SliderWeights :
                   Constructed(InitialLayer, weight, FALSE) /\ probe = NoProbe
SpecWeights == InitWeights /\ [][Next]_vars

\* the same tool constructed with freehand = True (the dialog's check box)
InitFreehand == Constructed(InitialLayer, DefaultEdgeWeight, TRUE) /\ probe = NoProbe
SpecFreehand == InitFreehand /\ [][Next]_vars

(************ get_edge_cost_map and find_optimal_path on their own *********)
\* size of the edge masks tried, in pixels; a path across the width is longer
\* than the window of the moving average
ProbeW == 7
ProbeH == 4
\* iteration budgets tried in place of max_iter
MaxBudget == 3
\* the cache_transform of a window of that size at the raster's resolution
ProbeTransform ==
    [x_min |-> 0, y_max |-> ProbeH * RasterRes, px_w |-> RasterRes, px_h |-> RasterRes,
     width |-> ProbeW, height |-> ProbeH]
\* the map point at pixel position (x, y), in units of 1/PixScale pixel
ProbePoint(x, y) == pixel_to_map(ProbeTransform, x, y)
\* two points of pixel (0, 0), one of (5, 3), one of (3, 1), one left of the
\* window and one beyond its top right corner
ProbePoints ==
    {ProbePoint(30, 30), ProbePoint(50, 10), ProbePoint(330, 210), ProbePoint(210, 90),
     ProbePoint(0 - 150, 150), ProbePoint(540, 0 - 300)}
\* the edge masks: every choice among four cells, none included
ProbeMasks ==
    {[w |-> ProbeW, h |-> ProbeH, ink |-> i] :
        i \in SUBSET {<<0, 0>>, <<2, 1>>, <<3, 1>>, <<5, 3>>}}

\* s and e are the clamped start and end pixels (lines 503-515)
ProbeInput(edges, weight, start, target) ==
    [stage |-> "input", edges |-> edges, edge_weight |-> weight,
     start |-> start, target |-> target,
     s |-> ClampPx(map_to_pixel(ProbeTransform, start), ProbeW, ProbeH),
     e |-> ClampPx(map_to_pixel(ProbeTransform, target), ProbeW, ProbeH),
     cost |-> NoneVal, budget |-> 0, fp |-> [raised |-> FALSE, path |-> <<>>],
     pixels |-> <<>>, best |-> NonePt, exhausted |-> FALSE, goal_popped |-> FALSE,
     pops |-> 0, came_from |-> <<>>]
tool_vars == <<phase, freehand, edge_weight, extent, pans, layer_vars, trace_vars,
               resume_vars,
               cache_vars, ev>>

\* self.cached_cost = self.edge_detector.get_edge_cost_map(edges, edge_weight)
ProbeCost ==
    /\ probe.stage = "input"
    /\ probe' = [probe EXCEPT !.stage = "cost",
                              !.cost = get_edge_cost_map(probe.edges, probe.edge_weight)]
    /\ UNCHANGED tool_vars
\* what the search g under max_iter left behind, fp being what
\* find_optimal_path returned for it; pops counts the calls of heappop (the
\* iteration that breaks at line 538 pops nothing)
Searched(pr, stage, max_iter, g, fp) ==
    [pr EXCEPT !.stage = stage, !.budget = max_iter, !.fp = fp, !.pixels = g.path,
               !.best = g.st.best_node, !.exhausted = g.st.iter_count > max_iter,
               !.goal_popped = g.st.found,
               !.pops = IF g.st.found \/ g.st.pq = {} THEN g.st.iter_count
                        ELSE g.st.iter_count - 1,
               !.came_from = g.st.came_from]
\* find_optimal_path(target) with path_points = [start]
ProbeSearch ==
    /\ probe.stage = "cost"
    /\ probe' = Searched(probe, "found",
                         Max(MaxIterFloor, Manhattan(probe.s, probe.e) * MaxIterPerDist),
                         SearchFrom(probe.cost, probe.s, probe.e, MaxIterFloor),
                         find_optimal_path(probe.cost, ProbeTransform, <<probe.start>>,
                                           probe.target))
    /\ UNCHANGED tool_vars
\* lines 519-630 with max_iter set to budget
SearchedWithin(pr, budget, g) ==
    Searched(pr, "budget", budget, g,
             [raised |-> FALSE, path |-> PathOrSegment(ProbeTransform, g, pr.target)])
ProbeBudget(budget) ==
    /\ probe.stage = "cost"
    /\ probe' = SearchedWithin(probe, budget, SearchWithin(probe.cost, probe.s, probe.e, budget))
    /\ UNCHANGED tool_vars

\* edge_weight is 0.0, 0.5 or 1.0 (in thousandths)
InitProbe ==
    /\ InitTool(InitialLayer)
    /\ \E m \in ProbeMasks, w \in {0, 500, 1000}, a \in ProbePoints, b \in ProbePoints :
         probe = ProbeInput(m, w, a, b)
NextProbe ==
    \/ ProbeCost
    \/ ProbeSearch
    \/ \E budget \in 1..MaxBudget : ProbeBudget(budget)
SpecProbe == InitProbe /\ [][NextProbe]_vars

(***************************** smooth_bezier on its own *********************)
\* longest point list tried
SmoothMaxLen == 4
\* longest path of neighbouring pixel positions tried
LongPathLen == 13
\* the point lists of up to n points of S
ListsUpTo(S, n) == UNION {[1..k -> S] : k \in 0..n}

\* smooth_bezier(points, closed)
Smooth ==
    /\ probe.stage = "points"
    /\ probe' = [probe EXCEPT !.stage = "smoothed",
                              !.out = smooth_bezier(probe.points, probe.closed)]
    /\ UNCHANGED tool_vars

InitSmooth ==
    /\ InitTool(InitialLayer)
    /\ \E points \in ListsUpTo(Pts, SmoothMaxLen)
                     \cup {[i \in 1..n |-> <<RasterRes * i, RasterRes * (i % 2)>>] :
                              n \in 1..LongPathLen},
          closed \in BOOLEAN :
         probe = [stage |-> "points", points |-> points, closed |-> closed, out |-> <<>>]
NextSmooth == Smooth
SpecSmooth == InitSmooth /\ [][NextSmooth]_vars

(************************ PathFinder (path_finder.py) **********************)
\* max_steps, the "safety break" of find_path
max_steps == 50000
\* Pixels are (x, y) here; find_path's nodes are (row, col) = (y, x), and heapq
\* orders its entries (priority, (row, col)) by priority, then row, then col.
\* lines 85-89 for the pairs (next_node, new_cost) in upd
PushImproved(st, end, c, upd) ==
    [st EXCEPT
       !.pq = @ \cup {<<nc[2] + Heuristic(nc[1], end), nc[1][2], nc[1][1]>> : nc \in upd},
       !.cost_so_far = [n \in {nc[1] : nc \in upd} |-> (CHOOSE nc \in upd : nc[1] = n)[2]] @@ @,
       !.came_from = [n \in {nc[1] : nc \in upd} |-> c] @@ @]
\* The loop of lines 56-89.  st holds pq (frontier), came_from, cost_so_far,
\* steps and found; the bounds check of line 75 is Neighbours', the cost of
\* lines 78-83 and the test of line 85 are Improved's.
RECURSIVE FrontierLoop(_, _, _)
FrontierVisit(st, end, cost_map, current) ==
    IF current = end THEN [st EXCEPT !.found = TRUE]
    ELSE FrontierLoop(PushImproved(st, end, current, Improved(st, cost_map, current)),
                      end, cost_map)
FrontierLoop(st, end, cost_map) ==
    IF st.pq = {} \/ st.steps + 1 > max_steps THEN st
    ELSE FrontierVisit([st EXCEPT !.pq = @ \ {heappop(@)}, !.steps = @ + 1],
                       end, cost_map, <<heappop(st.pq)[3], heappop(st.pq)[2]>>)
\* lines 91-103
PathBack(st, start, end) ==
    IF ~st.found THEN <<>>
    ELSE <<start>> \o Reconstruct(st.came_from, end, start, <<>>)
\* find_path(start_pt, end_pt, cost_map) for integer pixel coordinates; the
\* start goes into the frontier without a bounds check (line 38)
find_path(start_pt, end_pt, cost_map) ==
    PathBack(FrontierLoop([pq |-> {<<0, start_pt[2], start_pt[1]>>},
                           came_from |-> (start_pt :> NonePt),
                           cost_so_far |-> (start_pt :> 0),
                           steps |-> 0, found |-> FALSE],
                          end_pt, cost_map),
             start_pt, end_pt)

\* side of the square cost maps tried, in pixels
FinderSize == 4
\* the pixels of the map and those one step outside it
FinderPoints == ((0 - 1)..FinderSize) \X ((0 - 1)..FinderSize)
\* find_path(start_pt, end_pt, cost_map)
FindPath ==
    /\ probe.stage = "ends"
    /\ probe' = [probe EXCEPT !.stage = "path",
                              !.path = find_path(probe.start_pt, probe.end_pt,
                                                 probe.cost_map)]
    /\ UNCHANGED tool_vars
\* cost maps of an edge along the row y = 1 and of a single edge pixel
InitFinder ==
    /\ InitTool(InitialLayer)
    /\ extent = ViewA
    /\ \E ink \in {{<<k, 1>> : k \in 0..(FinderSize - 1)}, {<<0, 0>>}},
          a \in FinderPoints, b \in FinderPoints :
         probe = [stage |-> "ends", start_pt |-> a, end_pt |-> b,
                  cost_map |-> get_edge_cost_map([w |-> FinderSize, h |-> FinderSize,
                                                  ink |-> ink], DefaultEdgeWeight),
                  path |-> <<>>]
NextFinder == FindPath
SpecFinder == InitFinder /\ [][NextFinder]_vars

(********************** the dock panel (main_dialog.py) ********************)
\* the parameters of SmartTraceTool.__init__ (smart_trace_tool.py lines 31-32)
InitParameters ==
    {"canvas", "raster_layer", "vector_layer", "model_type", "sam_engine", "edge_weight",
     "freehand", "edge_method", "iface"}
\* the keywords of the call of lines 488-498 (the first three arguments are
\* positional)
CallKeywords == {"edge_weight", "freehand", "sam_engine", "edge_method", "iface", "language"}
\* SmartTraceTool(..., **keywords): a keyword that is no parameter raises
\* TypeError before __init__ runs
SmartTraceTool(keywords, weight, free, method) ==
    IF keywords \subseteq InitParameters
    THEN [raised |-> FALSE,
          tool |-> [edge_weight |-> weight, freehand |-> free, edge_method |-> method]]
    ELSE [raised |-> TRUE, tool |-> NoneVal]
\* lines 488-505, made being what the constructor call did
ToolMade(d, made) ==
    IF made.raised THEN [d EXCEPT !.raised = TRUE]
    ELSE [d EXCEPT !.active_tool = made.tool, !.map_tool = made.tool]
\* toggle_trace_tool(checked) (lines 472-511); d.checked is the button's
\* state, which the click has already changed.  unsetMapTool deactivates the
\* tool, whose signal runs on_tool_deactivated (lines 513-518).
toggle_trace_tool(d) ==
    IF d.checked
    THEN IF ~d.raster THEN [d EXCEPT !.checked = FALSE]
         ELSE ToolMade(d, SmartTraceTool(CallKeywords, d.slider * 10, d.freehand_check,
                                         d.model_idx))
    ELSE IF d.active_tool # NoneVal
    THEN [d EXCEPT !.active_tool = NoneVal, !.map_tool = NoneVal]
    ELSE d
\* the panel after __init__: the trace button is disabled and unchecked
NewDock ==
    [stage |-> "dock", enabled |-> FALSE, raster |-> FALSE, slider |-> 30,
     freehand_check |-> FALSE, model_idx |-> 0, checked |-> FALSE,
     active_tool |-> NoneVal, map_tool |-> NoneVal, raised |-> FALSE]
\* a handler starts with no exception pending
Quiet(d) == [d EXCEPT !.raised = FALSE]

\* on_layer_selected -> enable_tracing (lines 460-468)
OnLayerSelected ==
    /\ probe.stage = "dock"
    /\ probe' = [Quiet(probe) EXCEPT !.enabled = TRUE]
    /\ UNCHANGED tool_vars
\* the raster combo box gets or loses its current layer
RasterChanged ==
    /\ probe.stage = "dock"
    /\ probe' = [Quiet(probe) EXCEPT !.raster = ~@]
    /\ UNCHANGED tool_vars
\* the slider, the freehand check box and the model combo box
SliderMoved(v) ==
    /\ probe.stage = "dock"
    /\ probe' = [Quiet(probe) EXCEPT !.slider = v]
    /\ UNCHANGED tool_vars
FreehandToggled ==
    /\ probe.stage = "dock"
    /\ probe' = [Quiet(probe) EXCEPT !.freehand_check = ~@]
    /\ UNCHANGED tool_vars
ModelChanged(i) ==
    /\ probe.stage = "dock"
    /\ probe' = [Quiet(probe) EXCEPT !.model_idx = i]
    /\ UNCHANGED tool_vars
\* a click on the trace button: the button toggles, then clicked runs
\* toggle_trace_tool (line 251)
TraceClicked ==
    /\ probe.stage = "dock"
    /\ probe.enabled
    /\ probe' = toggle_trace_tool([Quiet(probe) EXCEPT !.checked = ~@])
    /\ UNCHANGED tool_vars

InitDock == InitTool(InitialLayer) /\ extent = ViewA /\ probe = NewDock
NextDock ==
    \/ OnLayerSelected
    \/ RasterChanged
    \/ \E v \in {0, 30, 100} : SliderMoved(v)
    \/ FreehandToggled
    \/ \E i \in 0..3 : ModelChanged(i)
    \/ TraceClicked
SpecDock == InitDock /\ [][NextDock]_vars

(********************* SAM weights on disk (sam_engine.py) *****************)
\* The weights file is [version, size, full]: the first size chunks of the
\* full chunks of a release; NoneVal when there is no file.  The remote end is
\* [version, full, etag, length]: the release it serves and whether its
\* headers carry ETag and Content-Length.
\* a header, metadata entry or size that is None
Absent == 0 - 1
\* most chunks in a release
MaxChunks == 2
\* _parse_remote_headers (lines 76-87); Last-Modified is not sent
remote_info(remote) ==
    [etag |-> IF remote.etag THEN remote.version ELSE Absent,
     last_modified |-> Absent,
     content_length |-> IF remote.length THEN remote.full ELSE Absent]
\* what download_weights leaves: [weights, meta, returned]
Downloaded(weights, meta, returned) ==
    [weights |-> weights, meta |-> meta, returned |-> returned]
\* lines 265-278: the file was opened with 'wb' and got chunks chunks before
\* the stream ended (broken: with an exception)
Written(disk, remote, chunks, broken) ==
    IF broken \/ (remote.length /\ chunks # remote.full)
    THEN Downloaded([version |-> remote.version, size |-> chunks, full |-> remote.full],
                    disk.meta, FALSE)
    ELSE Downloaded([version |-> remote.version, size |-> chunks, full |-> remote.full],
                    remote_info(remote), TRUE)
\* download_weights (lines 250-281).  outcome: "refused" (requests.get or
\* raise_for_status raises, or the file cannot be opened), "broken" (the stream
\* or a write raises after chunks chunks) or "ended" (the stream ends after
\* chunks chunks)
download_weights(disk, remote, outcome, chunks) ==
    IF outcome = "refused" THEN Downloaded(disk.weights, disk.meta, FALSE)
    ELSE Written(disk, remote, chunks, outcome = "broken")
\* Python's truth of a header value or a size
Truthy(v) == v # Absent /\ v # 0
\* get_local_weights_info (lines 127-139)
local_info(disk) ==
    [exists |-> disk.weights # NoneVal,
     size |-> IF disk.weights # NoneVal THEN disk.weights.size ELSE Absent,
     etag |-> IF disk.meta # NoneVal THEN disk.meta.etag ELSE Absent,
     last_modified |-> IF disk.meta # NoneVal THEN disk.meta.last_modified ELSE Absent,
     content_length |-> IF disk.meta # NoneVal THEN disk.meta.content_length ELSE Absent]
\* check_weights_update's status (lines 141-225), ok telling whether the
\* remote metadata could be fetched
update_status(local, remote, ok) ==
    IF ~ok THEN "check_failed"
    ELSE IF ~local.exists THEN "not_installed"
    ELSE IF Truthy(remote.etag) /\ Truthy(local.etag) /\ remote.etag # local.etag
    THEN "update_available"
    ELSE IF Truthy(remote.content_length) /\ Truthy(local.size)
            /\ remote.content_length # local.size
    THEN "update_available"
    ELSE IF Truthy(remote.last_modified) /\ Truthy(local.last_modified)
            /\ remote.last_modified # local.last_modified /\ ~Truthy(remote.etag)
    THEN "update_available"
    ELSE IF ~Truthy(remote.etag) /\ ~Truthy(remote.content_length)
            /\ ~Truthy(remote.last_modified)
    THEN "unknown"
    ELSE "up_to_date"

\* download_weights(); before keeps the two files as the call found them
DownloadWeights(outcome, chunks) ==
    /\ probe.stage = "disk"
    /\ chunks <= probe.remote.full
    /\ outcome = "broken" => chunks < probe.remote.full
    /\ probe' = [probe EXCEPT
                   !.before = [weights |-> probe.weights, meta |-> probe.meta],
                   !.weights = download_weights(probe, probe.remote, outcome, chunks).weights,
                   !.meta = download_weights(probe, probe.remote, outcome, chunks).meta,
                   !.returned = download_weights(probe, probe.remote, outcome, chunks).returned,
                   !.called = "download_weights"]
    /\ UNCHANGED tool_vars
\* check_weights_update()
CheckWeightsUpdate(ok) ==
    /\ probe.stage = "disk"
    /\ probe' = [probe EXCEPT
                   !.status = update_status(local_info(probe), remote_info(probe.remote), ok),
                   !.called = "check_weights_update"]
    /\ UNCHANGED tool_vars
\* the host serves another release, or other headers
RemoteChanged(version, full, etag, length) ==
    /\ probe.stage = "disk"
    /\ probe.remote # [version |-> version, full |-> full, etag |-> etag, length |-> length]
    /\ probe' = [probe EXCEPT
                   !.remote = [version |-> version, full |-> full, etag |-> etag,
                               length |-> length],
                   !.called = "none"]
    /\ UNCHANGED tool_vars

\* no weights on disk yet, the host serving release 1
InitDownload ==
    /\ InitTool(InitialLayer)
    /\ extent = ViewA
    /\ probe = [stage |-> "disk", weights |-> NoneVal, meta |-> NoneVal,
                remote |-> [version |-> 1, full |-> MaxChunks, etag |-> TRUE, length |-> TRUE],
                before |-> [weights |-> NoneVal, meta |-> NoneVal],
                returned |-> FALSE, status |-> "none", called |-> "none"]
NextDownload ==
    \/ \E outcome \in {"refused", "broken", "ended"}, chunks \in 0..MaxChunks :
          DownloadWeights(outcome, chunks)
    \/ \E ok \in BOOLEAN : CheckWeightsUpdate(ok)
    \/ \E version \in 1..2, etag \in BOOLEAN, length \in BOOLEAN :
          RemoteChanged(version, MaxChunks, etag, length)
SpecDownload == InitDownload /\ [][NextDownload]_vars

(************************ the search heuristic on its own *******************)
\* side of the square cost fields tried, in pixels
HeurSize == 6
\* the edge masks: a diagonal line, a horizontal line, a line with a bend
\* and a single cell
HeurMasks ==
    {[w |-> HeurSize, h |-> HeurSize, ink |-> i] :
        i \in {{<<k, k>> : k \in 0..(HeurSize - 1)},
                {<<k, 2>> : k \in 0..(HeurSize - 1)},
                {<<k, 1>> : k \in 1..(HeurSize - 3)}
                    \cup {<<HeurSize - 2, k>> : k \in 2..(HeurSize - 2)},
                {<<0, 0>>}}}

\* edge_cost * move_cost of line 563 for the step from c into n
StepCost(cost, c, n) == MulDiv(CostAt(cost, n), move_cost(c, n), 1000)
\* the costs of going from n to the goal through a neighbour whose own cost
\* D[m] is known, and D[n] itself if known (Inf: not known yet)
Through(cost, D, n) ==
    {D[m] + StepCost(cost, n, m) : m \in {m \in Neighbours(n, cost.w, cost.h) : D[m] # Inf}}
        \cup (IF D[n] = Inf THEN {} ELSE {D[n]})
MinOrInf(S) == IF S = {} THEN Inf ELSE SetMin(S)
RelaxAll(cost, D) == [n \in DOMAIN D |-> MinOrInf(Through(cost, D, n))]
\* the least fixed point: D[n] is the cost of the cheapest 8-connected
\* in-bounds path from n to the goal
RECURSIVE CheapestFix(_, _)
CheapestNext(cost, D, R) == IF R = D THEN D ELSE CheapestFix(cost, R)
CheapestFix(cost, D) == CheapestNext(cost, D, RelaxAll(cost, D))
CheapestTo(cost, goal) ==
    CheapestFix(cost, [n \in Cells(cost.w, cost.h) |-> IF n = goal THEN 0 ELSE Inf])

\* the heuristic of line 568 for every cell, next to the cheapest path costs
HeuristicField ==
    /\ probe.stage = "field"
    /\ probe' = [probe EXCEPT
                   !.stage = "heuristic",
                   !.h = [n \in Cells(HeurSize, HeurSize) |-> Heuristic(n, probe.goal)],
                   !.cheapest = CheapestTo(probe.cost, probe.goal)]
    /\ UNCHANGED tool_vars

\* lines 519-600 from the pixel start to the goal
PathToGoal(start) ==
    /\ probe.stage = "heuristic"
    /\ probe' = [probe EXCEPT
                   !.stage = "path",
                   !.s = start,
                   !.pixels = SearchFrom(probe.cost, start, probe.goal, MaxIterFloor).path]
    /\ UNCHANGED tool_vars

InitHeuristic ==
    /\ InitTool(InitialLayer)
    /\ extent = ViewA
    /\ \E m \in HeurMasks, w \in {0, 500, 1000}, g \in Cells(HeurSize, HeurSize) :
         probe = [stage |-> "field", cost |-> get_edge_cost_map(m, w), goal |-> g,
                  h |-> <<>>, cheapest |-> <<>>, s |-> NonePt, pixels |-> <<>>]
NextHeuristic ==
    \/ HeuristicField
    \/ \E start \in Cells(HeurSize, HeurSize) : PathToGoal(start)
SpecHeuristic == InitHeuristic /\ [][NextHeuristic]_vars

(********************************* claims **********************************)
\* the geometry of the feature created last
Emitted == Last(vector_layer).parts[1]
\* the handlers that end a session
TerminalOps == {"close", "spot", "finish", "cancel", "deactivate"}

\* C1: N confirm clicks after the start click (hover moves and pans allowed in
\* between, no drag) followed by N undos leave path_points = [start],
\* checkpoints = [0] and the session tracing.
C1_ConfirmsThenUndos ==
    (ev.run.confirms >= 0 /\ ev.run.undos = ev.run.confirms) =>
        /\ is_tracing
        /\ path_points = <<start_point>>
        /\ checkpoints = <<0>>
\* two confirm clicks have been undone by two undos
C1_Witness == ev.run = [confirms |-> 2, undos |-> 2]

\* C2: while tracing, checkpoints is non-empty, starts with 0, is strictly
\* increasing and holds only indices of path_points.
C2_CheckpointsOrdered ==
    is_tracing =>
        /\ checkpoints # <<>>
        /\ checkpoints[1] = 0
        /\ \A i \in 1..(Len(checkpoints) - 1) : checkpoints[i] < checkpoints[i + 1]
        /\ \A i \in 1..Len(checkpoints) : checkpoints[i] < Len(path_points)
\* an undo that left two checkpoints of a path of three or more points
C2_Witness ==
    is_tracing /\ ev.op = "undo" /\ Len(checkpoints) = 2 /\ ev.points >= 3

\* C3: while tracing path_points is non-empty and begins with start_point;
\* while not tracing path_points, checkpoints and preview_path are empty and
\* start_point is None.
C3_SessionShape ==
    /\ is_tracing => path_points # <<>> /\ path_points[1] = start_point
    /\ ~is_tracing =>
          /\ path_points = <<>>
          /\ checkpoints = <<>>
          /\ preview_path = <<>>
          /\ start_point = NonePt
\* a session of two or more points was cancelled
C3_Witness == ~is_tracing /\ ev.op = "cancel" /\ ev.points >= 2

\* C4: an undo taken while path_points extends beyond the last checkpoint c
\* leaves path_points equal to its prefix of length c + 1 and checkpoints
\* unchanged, for any number of checkpoints.
C4_UndoTrimsToLastCheckpoint ==
    [][(is_tracing /\ ev'.op = "undo" /\ Len(path_points) > Last(checkpoints) + 1) =>
          /\ path_points' = Prefix(path_points, Last(checkpoints) + 1)
          /\ checkpoints' = checkpoints]_vars

\* C5: an undo never ends the session, never empties path_points, never
\* removes checkpoint 0 and never raises; after a start, one confirm and one
\* undo path_points is [start], and an undo taken at [start] changes nothing.
C5_UndoKeepsSession ==
    ev.op = "undo" =>
        /\ is_tracing
        /\ path_points # <<>>
        /\ checkpoints # <<>>
        /\ checkpoints[1] = 0
        /\ ~ev.raised
        /\ ev.run = [confirms |-> 1, undos |-> 1] => path_points = <<start_point>>
        /\ ev.points = 1 => path_points = <<start_point>> /\ checkpoints = <<0>>
\* an undo taken when only the start point was there
C5_Witness == ev.op = "undo" /\ ev.points = 1 /\ is_tracing

\* C6: a close click on a trace of three or more points whose prompt returned
\* a value emits exactly one geometry, whose first and last points are equal.
C6_CloseEmitsOneRing ==
    (ev.op = "close" /\ ev.answered /\ ev.points >= 3) =>
        /\ ev.creates + ev.updates = 1
        /\ ev.creates = 1
        /\ Emitted[1] = Last(Emitted)
\* such a close has emitted its ring
C6_Witness == ev.op = "close" /\ ev.answered /\ ev.points >= 3 /\ ev.creates = 1

\* C7: a close or a finish taken with two or more path points prompts exactly
\* once and calls the feature sink at most once, and not at all when the
\* prompt is cancelled.
C7_PromptOnceSinkAtMostOnce ==
    (ev.op \in {"close", "finish"} /\ ev.points >= 2) =>
        /\ ev.prompts = 1
        /\ ev.creates + ev.updates <= 1
        /\ ~ev.answered => ev.creates + ev.updates = 0

\* C8: a finish taken with fewer than two path points emits no feature, does
\* not prompt and does not raise.
C8_ShortFinishIsNoOp ==
    (ev.op = "finish" /\ ev.points < 2) =>
        /\ ev.prompts = 0
        /\ ev.creates = 0 /\ ev.updates = 0 /\ ev.spots = 0
        /\ ~ev.raised
\* a finish was taken with the start point only
C8_Witness == ev.op = "finish" /\ ev.points = 1 /\ ~is_tracing

C10_TerminalActionsReturnToIdle ==
    /\ [](ev.op \in TerminalOps =>
            /\ ~is_tracing
            /\ path_points = <<>>
            /\ checkpoints = <<>>
            /\ preview_path = <<>>)
    /\ [][(~is_tracing /\ is_tracing') => ev'.op = "start"]_vars

\* the handlers that may write to a layer
CommitOps == {"finish", "close", "spot"}

\* C11: the features of the line layer and of the spot-height layer change
\* only in a finish (right click or Enter), a close click or a spot click; a
\* start click, a confirm click, a drag or hover move, an undo (tracing or
\* Idle), a cancel or a view change leaves every stored feature as it was.
C11_FeaturesChangeOnlyOnCommit ==
    [][(vector_layer' # vector_layer \/ spot_height_layer' # spot_height_layer) =>
          ev'.op \in CommitOps]_vars
\* a finish has changed the geometry of an existing feature in place
C11_Witness == ev.op = "finish" /\ ev.updates = 1 /\ vector_layer # InitialLayer

C13_ResumeNeverCreates ==
    [][(ev'.op \in {"finish", "close"} /\ ev'.answered /\ is_tracing
        /\ resume_feature_id # NoneId) =>
          /\ ev'.updates = 1
          /\ ev'.creates = 0]_vars

\* the number of positions of seq that hold p
Occurrences(seq, p) == Cardinality({i \in 1..Len(seq) : seq[i] = p})
\* C14 for the line E and the trace P, merged being the updated geometry; of
\* the two copies of the junction point (E's touched end and P[1]) one is kept
SplicedOnto(E, P, at_start, merged) ==
    /\ merged = IF at_start THEN Front(Reverse(P)) \o E ELSE E \o Tail(P)
    /\ Len(merged) = Len(E) + Len(P) - 1
    /\ IF at_start THEN SubSeq(merged, Len(P), Len(merged)) = E
       ELSE SubSeq(merged, 1, Len(E)) = E
    /\ Occurrences(merged, P[1]) = Occurrences(E, P[1]) + Occurrences(P, P[1]) - 1
    /\ (Occurrences(E, P[1]) = 1 /\ Occurrences(P, P[1]) = 1) => Occurrences(merged, P[1]) = 1

InBounds(p, w, h) == 0 <= p[1] /\ p[1] < w /\ 0 <= p[2] /\ p[2] < h
\* pixels a and b differ by at most 1 in x and in y
Adjacent(a, b) == Abs(a[1] - b[1]) <= 1 /\ Abs(a[2] - b[2]) <= 1
\* the map position of pixel p
PixelPosition(t, p) == pixel_to_map(t, p[1] * PixScale, p[2] * PixScale)

\* C15: with a cost field cached, when the last confirmed point and the target
\* map to the same clamped pixel p, find_optimal_path returns the one-point
\* path [position of p].
C15_SamePixelGivesThatPixel ==
    (probe.stage = "found" /\ probe.s = probe.e) =>
        /\ ~probe.fp.raised
        /\ probe.fp.path = <<PixelPosition(ProbeTransform, probe.s)>>

\* C16: for every cost field and every start and target point, inside the
\* window or clamped to it, the pixel path reconstructed before smoothing
\* holds only in-bounds pixels, its first pixel is a neighbour of (or is) the
\* start pixel and each further pixel is a neighbour of the one before.
C16_PixelPathContiguous ==
    probe.stage \in {"found", "budget"} =>
        /\ InBounds(probe.s, ProbeW, ProbeH)
        /\ \A i \in 1..Len(probe.pixels) : InBounds(probe.pixels[i], ProbeW, ProbeH)
        /\ probe.pixels # <<>> => Adjacent(probe.s, probe.pixels[1])
        /\ \A i \in 1..(Len(probe.pixels) - 1) : Adjacent(probe.pixels[i], probe.pixels[i + 1])
\* a search from a point left of the window has returned three or more pixels
C16_Witness ==
    /\ probe.stage = "found"
    /\ map_to_pixel(ProbeTransform, probe.start) # probe.s
    /\ Len(probe.pixels) >= 3

C19_NoStaleCostField ==
    (ev.op \in {"hover", "close"} /\ ev.searched) =>
        /\ cache_extent = Intersect(extent, raster_ext)
        /\ cache_transform.x_min = Intersect(extent, raster_ext).xmin
        /\ cache_transform.y_max = Intersect(extent, raster_ext).ymax

\* C20: while no cost field is cached (none was built since the tool was
\* constructed), a hover or a close click does not raise and its call of
\* find_optimal_path returns the straight segment [target_point].
C20_NoFieldGivesSegment ==
    (ev.op \in {"hover", "close"} /\ cached_cost \in {Unset, NoneVal}) =>
        /\ ~ev.raised
        /\ ev.op = "hover" => Len(preview_path) = 1
        /\ ev.op = "close" => ev.appended = ev.points + 1

\* the handlers that rebuild the cache
CacheOps == {"activate", "start", "extent"}

\* C21: when the selected detection strategy raises, detect_edges yields an
\* empty mask instead of the error, and the cache rebuild that called it ends
\* with a cost field cached for the current view.
C21_DetectorErrorGivesField ==
    (ev.op \in CacheOps /\ ev.detector = "raised") =>
        /\ cached_edges # NoneVal
        /\ cached_edges.ink = {}
        /\ cached_cost \notin {Unset, NoneVal}
        /\ cache_extent = Intersect(extent, raster_ext)

\* C22: for an open path of any length smooth_bezier returns a path whose
\* first and last points are the input's first and last points; an input of
\* fewer than three points is returned unchanged.
C22_OpenEndsPreserved ==
    (probe.stage = "smoothed" /\ ~probe.closed) =>
        /\ Len(probe.points) < 3 => probe.out = probe.points
        /\ probe.points # <<>> =>
              /\ probe.out # <<>>
              /\ probe.out[1] = probe.points[1]
              /\ Last(probe.out) = Last(probe.points)
\* an open path of three or more points with different ends was smoothed
C22_Witness ==
    /\ probe.stage = "smoothed" /\ ~probe.closed
    /\ Len(probe.points) >= 3
    /\ probe.points[1] # Last(probe.points)
    /\ Len(probe.out) > Len(probe.points)

\* a is a prefix of b
IsPrefixOf(a, b) == Len(a) <= Len(b) /\ SubSeq(b, 1, Len(a)) = a

\* C23: every action other than an undo and a session reset leaves the
\* confirmed points in place: after a start or confirm click, a drag or hover
\* move or a view change the previous path_points is a prefix of the new one,
\* and a hover move leaves path_points and checkpoints unchanged.
C23_ConfirmedPointsUntouched ==
    [][/\ ev'.op \notin ({"undo"} \cup TerminalOps) => IsPrefixOf(path_points, path_points')
       /\ ev'.op \in {"hover", "move_small", "move_idle"} =>
             /\ path_points' = path_points
             /\ checkpoints' = checkpoints]_vars
\* a confirm click has appended a preview of two or more points to a path of
\* two or more points
C23_Witness ==
    ev.op = "confirm" /\ ev.points >= 2 /\ Len(path_points) >= ev.points + 2

\* C24: a left click while tracing that is not near the start appends to
\* path_points the whole preview_path if it is non-empty, otherwise the
\* clicked point alone; afterwards preview_path is empty and exactly one
\* checkpoint, the index of the new last point, has been appended.
C24_ConfirmCommitsPreview ==
    [][ev'.op = "confirm" =>
          /\ IF preview_path # <<>> THEN path_points' = path_points \o preview_path
             ELSE \E point \in Pts :
                     /\ ~is_near_start(start_point, path_points, point)
                     /\ path_points' = Append(path_points, point)
          /\ preview_path' = <<>>
          /\ checkpoints' = Append(checkpoints, Len(path_points') - 1)
          /\ Last(checkpoints') = Len(path_points') - 1]_vars
\* a third checkpoint was recorded by a click that added the clicked point only
C24_Witness ==
    /\ ev.op = "confirm" /\ Len(path_points) = ev.points + 1
    /\ Len(checkpoints) = 3 /\ checkpoints[3] = Len(path_points) - 1

\* C25: a confirm click that commits a non-empty preview_path commits a
\* preview that was computed from the point that is the last element of
\* path_points at the click; no preview computed from an earlier path end is
\* committed after an undo or a drag.
C25_CommittedPreviewIsCurrent ==
    [][(ev'.op = "confirm" /\ preview_path # <<>>) => preview_from = Last(path_points)]_vars

\* C26: the search heuristic is admissible: for every cost field with all
\* costs >= 1.0, every cell n and every goal g, the Euclidean distance from n
\* to g is not larger than the cost of the cheapest 8-connected path from n
\* to g under the move cost of the search.
C26_HeuristicAdmissible ==
    probe.stage = "heuristic" =>
        \A n \in Cells(HeurSize, HeurSize) : probe.h[n] <= probe.cheapest[n]

\* the total cost of the pixel path from prev on: the sum over the entered
\* cells of move factor times cell cost
RECURSIVE PathCost(_, _, _, _)
PathCost(cost, prev, pixels, i) ==
    IF i > Len(pixels) THEN 0
    ELSE StepCost(cost, prev, pixels[i]) + PathCost(cost, pixels[i], pixels, i + 1)

RECURSIVE WalkBack(_, _, _)
WalkBack(came_from, n, k) ==
    IF n \notin DOMAIN came_from THEN n
    ELSE IF k = 0 THEN NonePt
    ELSE WalkBack(came_from, came_from[n], k - 1)

\* C28: find_optimal_path terminates: the search loop pops at most max_iter
\* nodes (max(100000, 500 * Manhattan distance of the clamped endpoints) in
\* the code, any budget here), and came_from holds no cycle, so that the walk
\* back from any pixel, the end pixel included, reaches the start pixel in
\* finitely many steps.
C28_SearchTerminates ==
    probe.stage \in {"found", "budget"} =>
        /\ probe.pops <= probe.budget
        /\ probe.stage = "found" =>
              probe.budget >= MaxIterFloor
              /\ probe.budget >= MaxIterPerDist * Manhattan(probe.s, probe.e)
        /\ probe.s \notin DOMAIN probe.came_from
        /\ \A n \in DOMAIN probe.came_from :
              WalkBack(probe.came_from, n, ProbeW * ProbeH) = probe.s
        /\ Len(probe.pixels) < ProbeW * ProbeH
\* a search stopped by its budget after popping as many nodes as it allows,
\* with predecessors recorded
C28_Witness ==
    /\ probe.stage = "budget" /\ probe.exhausted
    /\ probe.pops = probe.budget /\ probe.budget = MaxBudget
    /\ Cardinality(DOMAIN probe.came_from) > 8

\* C29: when the search reaches the goal pixel within its budget, the last
\* point of the path find_optimal_path returns is the map position of the
\* clamped goal pixel, whatever the length of the path (start and goal in
\* different pixels; C15 is the case of one pixel).
C29_PathEndsAtGoal ==
    (probe.stage = "found" /\ probe.goal_popped /\ probe.s # probe.e) =>
        /\ probe.fp.path # <<>>
        /\ Last(probe.fp.path) = PixelPosition(ProbeTransform, probe.e)

\* C30: the cost field the session caches is the one get_edge_cost_map gives
\* for the cached edge mask and the edge_weight the tool was constructed with
\* (so that, get_edge_cost_map being strictly increasing in edge_weight at
\* every off-edge cell (C18), a higher edge_weight caches a higher cost there).
C30_CacheBuiltWithToolWeight ==
    cached_cost \notin {Unset, NoneVal} =>
        cached_cost = get_edge_cost_map(cached_edges, edge_weight)

\* C31: in a tool constructed with freehand = True no handler's call of
\* find_optimal_path gets past line 500 to search the grid: hover previews and
\* closing paths are the straight segment [target_point].
C31_FreehandNeverSearches ==
    freehand => ~ev.searched

\* C32: a left click near the start point while path_points holds only the
\* start point leaves the line layer as it is, prompts once, adds exactly one
\* point feature at start_point with the value given (none when the prompt is
\* cancelled) and ends the session.
C32_SpotClickMakesOnePoint ==
    [][(is_tracing /\ Len(path_points) = 1 /\ ev'.op = "spot") =>
          /\ vector_layer' = vector_layer
          /\ ev'.prompts = 1
          /\ ev'.creates = 0 /\ ev'.updates = 0
          /\ IF ev'.answered
             THEN /\ Len(spot_height_layer') = Len(spot_height_layer) + 1
                  /\ Front(spot_height_layer') = spot_height_layer
                  /\ Last(spot_height_layer').pt = start_point
             ELSE spot_height_layer' = spot_height_layer
          /\ ~is_tracing' /\ path_points' = <<>> /\ start_point' = NonePt]_vars
C32_Witness ==
    /\ ev.op = "spot" /\ ev.answered
    /\ spot_height_layer # <<>>
    /\ ~is_tracing

\* C33: an answered open finish of a session resumed on a multipart feature
\* raises nothing, leaves that feature as it is, adds one new feature made of
\* the traced points and ends the session.
C33_MultipartResumeSavesNew ==
    [][(ev'.op = "finish" /\ ev'.answered /\ is_tracing /\ Len(path_points) >= 2
        /\ resume_feature_id \in 1..Len(vector_layer)
        /\ vector_layer[resume_feature_id].multi) =>
          /\ ~ev'.raised
          /\ Len(vector_layer') = Len(vector_layer) + 1
          /\ Front(vector_layer') = vector_layer
          /\ Last(vector_layer').parts = <<path_points>>
          /\ ~is_tracing' /\ path_points' = <<>>]_vars

\* the point count of the subsampling below smooth_bezier's return
MaxSmoothPoints == 100
\* C34: smooth_bezier never returns more than 100 points.
C34_AtMostHundredPoints ==
    probe.stage = "smoothed" => Len(probe.out) <= MaxSmoothPoints

\* C35: no handler that emitted a feature (a new line, a merged line or a
\* spot point) returns with the receiving layer holding an added or changed
\* feature that is not committed.
C35_NoUncommittedFeature ==
    edit_buffers = {}

\* C36: whatever the start and end coordinates, inside the cost map or not,
\* every pixel of the path PathFinder.find_path returns lies inside the map.
C36_PathInsideMap ==
    probe.stage = "path" =>
        \A i \in 1..Len(probe.path) :
            InBounds(probe.path[i], probe.cost_map.w, probe.cost_map.h)

\* C37: checking the trace button while a raster layer is selected raises
\* nothing and leaves active_tool set and installed as the canvas's map tool;
\* the button is never checked while active_tool is None.
C37_CheckedButtonHasTool ==
    (probe.stage = "dock" /\ probe.checked) =>
        /\ ~probe.raised
        /\ probe.active_tool # NoneVal
        /\ probe.map_tool = probe.active_tool

\* C38: when download_weights returns False the weights file and its metadata
\* file are as the call found them, and a weights file on disk is a complete
\* download.
C38_FailedDownloadLeavesDisk ==
    probe.stage = "disk" =>
        /\ (probe.called = "download_weights" /\ ~probe.returned) =>
              /\ probe.weights = probe.before.weights
              /\ probe.meta = probe.before.meta
        /\ probe.weights # NoneVal => probe.weights.size = probe.weights.full

====
